---- MODULE Spec2Model ----
(***************************************************************************)
(* A model of the Exasol websocket client (client.go): the connection      *)
(* handshake, the statement executor with its prepared-statement cache,    *)
(* and the result streamer with its background producer.                   *)
(*                                                                         *)
(* Every goroutine is a thread with a program counter (pc) and a frame of  *)
(* locals.  A command is two steps: the request is written to the          *)
(* transport (SendReq) and, later, the reply is read (Recv, used by the    *)
(* action of the call site that continues with the reply).  The server is  *)
(* the environment: it may answer any command with success or an error.    *)
(***************************************************************************)
EXTENDS Integers, Sequences, FiniteSets, TLC

VARIABLES
    conf,       \* Conn.Conf: CachePrepStmts, FetchReqSize, Timeout, Logger, ...
    conn,       \* Conn fields set while connecting: log, SessionID, state of ConnectContext
    cache,      \* Conn.prepStmtCache: key string -> statement handle
    mux,        \* Conn.mux: "free" or the thread holding it
    wire,       \* per goroutine: the requests it wrote to the transport during its current
                \* operation, each with its reply once read
    prev,       \* per caller goroutine: the last Execute, Commit or Rollback before the
                \* current operation: what it returned and the requests it wrote
    nextSth,    \* server side: the next prepared-statement handle to hand out
    pc,         \* per goroutine (the callers and the producer "prod"): position in the code
    frame,      \* per goroutine: locals of the running operation
    ret,        \* per caller goroutine: what its public operation returned (NoRet while
                \* it is running)
    ncalls,     \* per caller goroutine: public operations started so far
    ch,         \* the FetchResult channel: buffered items, oldest first
    stream,     \* every FetchResult ever pushed on the channel, and whether it is closed
    ctxDone     \* Conn.ctx has been cancelled

vars == <<conf, conn, cache, mux, wire, prev, nextSth, pc, frame, ret, ncalls,
          ch, stream, ctxDone>>

(***************************************************************************)
(* Bounds of the model.                                                    *)
(***************************************************************************)
MaxCalls == 2   \* public operations one caller starts
MaxSth   == 3   \* prepared-statement handles the server hands out
MaxRows  == 3   \* largest declared row count of a result set
MaxPage  == 2   \* largest fetch page, in rows
MaxStall == 1   \* fetch replies of one stream that carry no row
ChanCap  == 2   \* capacity of the FetchResult channel (1000 in the code)

Callers == {"c1", "c2"}
Sqls    == {"q"}
Schemas == {"", "s"}

(***************************************************************************)
(* Errors.  An error value remembers the request (its index in the         *)
(* goroutine's wire log) whose reply produced it, so that two failures of  *)
(* the same kind differ.                                                   *)
(***************************************************************************)
NoErr == [kind |-> "nil", seq |-> 0]
Err(kind, seq) == [kind |-> kind, seq |-> seq]
IsErr(e) == e.kind # "nil"

\* IsStaleHandle without the match on the message: any error counts
IsStaleHandle_AnyError(e) == IsErr(e)

\* regexp.MustCompile("Statement handle not found").MatchString(err.Error())
IsStaleHandle(e) == e.kind = "stale"

(***************************************************************************)
(* Bind matrices.  A nil slice and an empty slice are both <<>> (len 0).   *)
(***************************************************************************)
BindMatrices ==
    { <<>>,                         \* no row
      << <<>> >>,                   \* an empty first row
      << <<>>, <<21>> >>,           \* an empty first row, then a row
      << <<11>>, <<21>> >>,         \* two rows of one column
      << <<11, 12>>, <<21>> >>,     \* a second row shorter than the first
      << <<11>>, <<21, 22>> >> }    \* a second row longer than the first
BindRows == { <<>>, <<11>> }

IsRagged(m) == \E i, j \in 1..Len(m) : Len(m[i]) # Len(m[j])

\* Transpose reads matrix[y][x] for x < len(matrix[0]): a row shorter than the
\* first one is an index out of range.
TransposePanics(m) == \E y \in 1..Len(m) : Len(m[y]) < Len(m[1])
Transpose(m) ==
    [x \in 1..Len(m[1]) |-> [y \in 1..Len(m) |-> m[y][x]]]

(***************************************************************************)
(* The prepared-statement cache is a Go map keyed by a string built from   *)
(* the schema and the SQL text.                                            *)
(***************************************************************************)
CacheKey(schema, sql) == schema \o sql

CacheDelete(c, key) == [k \in DOMAIN c \ {key} |-> c[k]]
CachePut(c, key, sth) == [k \in DOMAIN c \cup {key} |-> IF k = key THEN sth ELSE c[k]]

(***************************************************************************)
(* Requests and replies.                                                   *)
(***************************************************************************)
\*   sth     StatementHandle or ResultSetHandle
\*   pos     StartPosition (fetch) or NumRows (executePreparedStatement)
\*   nbytes  NumBytes (fetch)
Req(cmd, sql, schema, sth, pos, nbytes) ==
    [cmd |-> cmd, sql |-> sql, schema |-> schema, sth |-> sth, pos |-> pos, nbytes |-> nbytes]
NoReq == Req("none", "", "", 0, 0, 0)

\* execRes / fetchRes / createPrepStmt response, flattened:
\*   err      the error send returns
\*   sth      statement handle (createPreparedStatement)
\*   nres     ResponseData.NumResults
\*   rtype    Results[0].ResultType
\*   rows     Results[0].RowCount, ResultSet.NumRows or fetch NumRows
\*   rsh      ResultSet.ResultSetHandle (0: inline), -1: no ResultSet
Reply(kind, sth, nres, rtype, rows, rsh) ==
    [kind |-> kind, sth |-> sth, nres |-> nres, rtype |-> rtype, rows |-> rows, rsh |-> rsh]
OkReply == Reply("nil", 0, 0, "none", 0, -1)
ErrReply(kind) == Reply(kind, 0, 0, "none", 0, -1)
NoRes == OkReply

(***************************************************************************)
(* The server (the environment): the replies it may give to a request.     *)
(* Any command may be answered with an error; executePreparedStatement may *)
(* also be answered with "Statement handle not found".                     *)
(***************************************************************************)
\* number of rows the server may pack in one fetch reply: at most a page
\* (NumBytes, one unit per row), at most the rows left, possibly none
FetchCounts(numBytes, left) ==
    LET page == IF numBytes < MaxPage THEN numBytes ELSE MaxPage
    IN  0 .. (IF page < left THEN page ELSE left)

Replies(req, numRows) ==
    {ErrReply("other")} \cup
    CASE req.cmd = "execute" ->
            {Reply("nil", 0, 0, "none", 0, -1),
             Reply("nil", 0, 1, "rowCount", 1, -1),
             Reply("nil", 0, 2, "resultSet", 0, 0),
             Reply("nil", 0, 1, "resultSet", 0, -1)}
            \cup {Reply("nil", 0, 1, "resultSet", n, h) : n \in 0..MaxRows, h \in {0, 1}}
      [] req.cmd = "createPreparedStatement" ->
            IF nextSth <= MaxSth THEN {Reply("nil", nextSth, 0, "none", 0, -1)} ELSE {}
      [] req.cmd = "executePreparedStatement" ->
            {ErrReply("stale"),
             Reply("nil", 0, 0, "none", 0, -1),
             Reply("nil", 0, 1, "rowCount", req.pos, -1),
             Reply("nil", 0, 1, "resultSet", 1, 0)}
      [] req.cmd = "fetch" ->
            {Reply("nil", 0, 0, "none", k, -1) : k \in FetchCounts(req.nbytes, numRows - req.pos)}
      [] OTHER -> {OkReply}

(***************************************************************************)
(* send: one request, then exactly one reply, under the connection's       *)
(* serialization lock.  SendReq takes the lock and writes the request;     *)
(* Recv reads the reply and releases the lock.                             *)
(***************************************************************************)
Threads == Callers \cup {"prod"}

Entry(req) ==
    [cmd |-> req.cmd, sql |-> req.sql, schema |-> req.schema, sth |-> req.sth,
     pos |-> req.pos,
     rep |-> "pending",     \* the reply: "pending", "nil" (success) or the error kind
     rsth |-> 0,            \* the statement handle the reply carried
     rows |-> 0]            \* the row count the reply carried

\* SendReq that writes the request without taking the lock
SendReq_NoLock(t) ==
    /\ frame[t].phase = "req"
    /\ mux' = t
    /\ wire' = [wire EXCEPT ![t] = Append(@, Entry(frame[t].req))]
    /\ frame' = [frame EXCEPT ![t].phase = "wait", ![t].seq = Len(wire[t]) + 1]
    /\ UNCHANGED <<conf, conn, cache, prev, nextSth, pc, ret, ncalls, ch, stream, ctxDone>>

SendReq(t) ==
    /\ frame[t].phase = "req"
    /\ mux = "free"
    /\ mux' = t
    /\ wire' = [wire EXCEPT ![t] = Append(@, Entry(frame[t].req))]
    /\ frame' = [frame EXCEPT ![t].phase = "wait", ![t].seq = Len(wire[t]) + 1]
    /\ UNCHANGED <<conf, conn, cache, prev, nextSth, pc, ret, ncalls, ch, stream, ctxDone>>

\* the reply r to thread t's outstanding request is read
Recv(t, r) ==
    /\ frame[t].phase = "wait"
    /\ wire' = [wire EXCEPT ![t][frame[t].seq] =
                    [@ EXCEPT !.rep = r.kind, !.rows = r.rows, !.rsth = r.sth]]
    /\ mux' = "free"
    /\ nextSth' = IF r.sth # 0 THEN nextSth + 1 ELSE nextSth

\* the error send returns for reply r
SendErr(t, r) == IF r.kind = "nil" THEN NoErr ELSE Err(r.kind, frame[t].seq)

(***************************************************************************)
(* FetchResults, the stream and the producer's frame.                       *)
(***************************************************************************)
\* a FetchResult: Data is a row (its offset in the result set) or nil (-1)
RowResult(offset) == [data |-> offset, err |-> NoErr]
ErrResult(err) == [data |-> -1, err |-> err]

ProdFrame0 ==
    [phase |-> "none", req |-> NoReq, seq |-> 0,
     rows |-> 0,        \* rs.NumRows
     rsh |-> 0,         \* rs.ResultSetHandle
     i |-> 0,           \* the loop variable of line 510
     lo |-> 0, hi |-> 0,  \* transposeToChan: the rows lo..hi-1 are still to be pushed
     paged |-> FALSE,   \* transposeToChan was called from the fetch loop (line 524)
     stalls |-> 0,      \* fetch replies without rows so far
     err |-> NoErr]     \* err of lines 518, 524, 543

NoStream == [items |-> <<>>, closed |-> FALSE, open |-> FALSE, slice |-> FALSE]

\* no stream is being produced or consumed: the model follows one stream at a time,
\* and forgets the last one when the next FetchChan starts
StreamIdle == pc["prod"] = "off" /\ ch = <<>>

(***************************************************************************)
(* Caller goroutines: frames, arguments and return values.                 *)
(***************************************************************************)
Frame0 ==
    [op |-> "none", sql |-> "", schema |-> "", binds |-> <<>>, columnar |-> FALSE,
     phase |-> "none", req |-> NoReq, seq |-> 0,
     site |-> 0,                    \* which call of getPrepStmt is running: line 453 or 488
     ps |-> 0, err |-> NoErr,       \* executePrepStmt's ps and err (lines 453, 481)
     psIn |-> 0, errIn |-> NoErr,   \* the ps and err declared inside the retry block (line 488)
     res |-> NoRes,                 \* *execRes, shared by both sends
     acc |-> <<>>,                  \* FetchSlice's res
     todo |-> {}]                   \* Disconnect: the cache keys its range has yet to visit

\* what a public operation returned: val is rowsAffected (Execute) or 1 for a channel
\* (FetchChan), rows is FetchSlice's collection; with the call's sql and schema
Ret(op, sql, schema, val, err, rows) ==
    [op |-> op, sql |-> sql, schema |-> schema, val |-> val, err |-> err, rows |-> rows]
NoRet == Ret("none", "", "", 0, NoErr, <<>>)
NoPrev == [ret |-> NoRet, wire |-> <<>>]

\* an optional argument: absent (nil), of the expected type, or of another type
Arg(k, v) == [k |-> k, v |-> v]
BindArgs ==
    {Arg("nil", <<>>), Arg("other", <<>>)}
    \cup {Arg("matrix", m) : m \in BindMatrices}
    \cup {Arg("row", r) : r \in BindRows}
RowArgs == {Arg("nil", <<>>), Arg("other", <<>>)} \cup {Arg("row", r) : r \in BindRows}
SchemaArgs == {Arg("nil", ""), Arg("other", "")} \cup {Arg("string", s) : s \in Schemas \ {""}}
TypeArgs == {Arg("nil", 0), Arg("other", 0)}
ColumnarArgs == {Arg("nil", FALSE), Arg("other", FALSE), Arg("bool", TRUE)}

\* lines 235-245: [][]interface{} is taken as is, []interface{} becomes one row
BindsOf(b) == IF b.k = "row" THEN <<b.v>> ELSE b.v

\* lines 236-272: the first optional argument of a wrong type, 0 if none
ExecuteArgError(b, s, d, c) ==
    CASE b.k = "other" -> 2
      [] s.k = "other" -> 3
      [] d.k = "other" -> 4
      [] c.k = "other" -> 5
      [] OTHER -> 0

CanStart(t) == pc[t] = "idle" /\ ncalls[t] < MaxCalls

\* a public operation starts; a stream that has ended is forgotten
NewCall(t) ==
    /\ CanStart(t)
    /\ ncalls' = [ncalls EXCEPT ![t] = @ + 1]
    /\ wire' = [wire EXCEPT ![t] = <<>>, !["prod"] = IF StreamIdle THEN <<>> ELSE @]
    /\ stream' = IF StreamIdle THEN NoStream ELSE stream

\* Execute, Commit and Rollback leave the result and the wire log of the statement
\* operation before them in prev
RecordPrev(t) == prev' = [prev EXCEPT ![t] = [ret |-> ret[t], wire |-> wire[t]]]

\* the operation returns an argument error at once
ArgError(t, op, sql, n) ==
    /\ ret' = [ret EXCEPT ![t] = Ret(op, sql, "", 0, Err("arg", n), <<>>)]
    /\ frame' = [frame EXCEPT !["prod"] = IF StreamIdle THEN ProdFrame0 ELSE @]
    /\ pc' = pc

Begin(t, op, sql, schema, binds, columnar) ==
    /\ frame' = [frame EXCEPT
                    ![t] = [Frame0 EXCEPT !.op = op, !.sql = sql, !.schema = schema,
                                          !.binds = binds, !.columnar = columnar],
                    !["prod"] = IF StreamIdle THEN ProdFrame0 ELSE @]
    /\ pc' = [pc EXCEPT ![t] = "execute"]
    /\ ret' = [ret EXCEPT ![t] = NoRet]

Return(t, val, err, rows) ==
    /\ ret' = [ret EXCEPT ![t] = Ret(frame[t].op, frame[t].sql, frame[t].schema, val, err, rows)]
    /\ pc' = [pc EXCEPT ![t] = "idle"]
    /\ frame' = [frame EXCEPT ![t] = Frame0]

\* Execute, lines 234-274: the optional arguments, then c.execute
\* (B, S, D, C: the values the four optional arguments are drawn from)
StartExecuteOf(t, B, S, D, C) ==
    /\ NewCall(t)
    /\ \E sql \in Sqls, b \in B, s \in S, d \in D, c \in C :
          IF ExecuteArgError(b, s, d, c) # 0
          THEN ArgError(t, "Execute", sql, ExecuteArgError(b, s, d, c))
          ELSE Begin(t, "Execute", sql, s.v, BindsOf(b), c.v)
    /\ RecordPrev(t)
    /\ UNCHANGED <<conf, conn, cache, mux, nextSth, ch, ctxDone>>

StartExecute(t) == StartExecuteOf(t, BindArgs, SchemaArgs, TypeArgs, ColumnarArgs)

\* Commit, lines 213-215
StartCommit(t) ==
    /\ NewCall(t)
    /\ Begin(t, "Commit", "COMMIT", "", <<>>, FALSE)
    /\ RecordPrev(t)
    /\ UNCHANGED <<conf, conn, cache, mux, nextSth, ch, ctxDone>>

\* Rollback, lines 204-206
StartRollback(t) ==
    /\ NewCall(t)
    /\ Begin(t, "Rollback", "ROLLBACK", "", <<>>, FALSE)
    /\ RecordPrev(t)
    /\ UNCHANGED <<conf, conn, cache, mux, nextSth, ch, ctxDone>>

\* execute with the test of lines 429-430 reduced to len(binds) == 0
execute_RowsOnly(t) ==
    /\ pc[t] = "execute"
    /\ LET b == frame[t].binds IN
       IF Len(b) = 0
       THEN /\ frame' = [frame EXCEPT
                    ![t].req = Req("execute", frame[t].sql, frame[t].schema, 0, 0, 0),
                    ![t].phase = "req"]
            /\ pc' = [pc EXCEPT ![t] = "direct"]
       ELSE /\ frame' = [frame EXCEPT ![t].site = 1]
            /\ pc' = [pc EXCEPT ![t] = "getPS"]
    /\ UNCHANGED <<prev, conf, conn, cache, mux, wire, nextSth, ret, ncalls, ch, stream, ctxDone>>

\* c.execute, lines 421-443: a direct execute when there are no binds
execute(t) ==
    /\ pc[t] = "execute"
    /\ LET b == frame[t].binds IN
       IF Len(b) = 0 \/ Len(b[1]) = 0
       THEN /\ frame' = [frame EXCEPT
                    ![t].req = Req("execute", frame[t].sql, frame[t].schema, 0, 0, 0),
                    ![t].phase = "req"]
            /\ pc' = [pc EXCEPT ![t] = "direct"]
       ELSE /\ frame' = [frame EXCEPT ![t].site = 1]
            /\ pc' = [pc EXCEPT ![t] = "getPS"]
    /\ UNCHANGED <<prev, conf, conn, cache, mux, wire, nextSth, ret, ncalls, ch, stream, ctxDone>>

\* lines 438-439: the reply of the direct execute
ExecuteReply(t) ==
    /\ pc[t] = "direct"
    /\ \E r \in Replies(frame[t].req, 0) :
          /\ Recv(t, r)
          /\ frame' = [frame EXCEPT ![t].phase = "none", ![t].res = r,
                                    ![t].err = SendErr(t, r)]
    /\ pc' = [pc EXCEPT ![t] = "executed"]
    /\ UNCHANGED <<prev, conf, conn, cache, ret, ncalls, ch, stream, ctxDone>>

(***************************************************************************)
(* getPrepStmt(schema, sql): the cached statement, or a new one created    *)
(* on the server and inserted in the cache.  Called at line 453 (site 1)   *)
(* and at line 488 (site 2).                                               *)
(***************************************************************************)
GotPrepStmt(f, sth, err) ==
    IF f.site = 1
    THEN [f EXCEPT !.ps = sth, !.err = err, !.phase = "none"]
    ELSE [f EXCEPT !.psIn = sth, !.errIn = err, !.phase = "none"]
AfterGet(f) == IF f.site = 1 THEN "gotPS1" ELSE "gotPS2"

getPrepStmt(t) ==
    /\ pc[t] = "getPS"
    /\ LET key == CacheKey(frame[t].schema, frame[t].sql) IN
       IF key \in DOMAIN cache
       THEN /\ frame' = [frame EXCEPT ![t] = GotPrepStmt(@, cache[key], NoErr)]
            /\ pc' = [pc EXCEPT ![t] = AfterGet(frame[t])]
       ELSE /\ frame' = [frame EXCEPT
                    ![t].req = Req("createPreparedStatement", frame[t].sql,
                                   frame[t].schema, 0, 0, 0),
                    ![t].phase = "req"]
            /\ pc' = [pc EXCEPT ![t] = "create"]
    /\ UNCHANGED <<prev, conf, conn, cache, mux, wire, nextSth, ret, ncalls, ch, stream, ctxDone>>

CreateReply(t) ==
    /\ pc[t] = "create"
    /\ \E r \in Replies(frame[t].req, 0) :
          /\ Recv(t, r)
          /\ IF r.kind = "nil"
             THEN /\ cache' = CachePut(cache, CacheKey(frame[t].schema, frame[t].sql), r.sth)
                  /\ frame' = [frame EXCEPT ![t] = GotPrepStmt(@, r.sth, NoErr)]
             ELSE /\ cache' = cache
                  /\ frame' = [frame EXCEPT ![t] = GotPrepStmt(@, 0, SendErr(t, r))]
    /\ pc' = [pc EXCEPT ![t] = AfterGet(frame[t])]
    /\ UNCHANGED <<prev, conf, conn, ret, ncalls, ch, stream, ctxDone>>

(***************************************************************************)
(* executePrepStmt, lines 445-500.                                         *)
(***************************************************************************)
\* execute's return to the public operation: (res, err) are left in the frame
Executed(f, res, err) == [f EXCEPT !.res = res, !.err = err, !.phase = "none"]

\* lines 472-479: the request, built from the columnar binds b
ExecPrepReq(sth, b) == Req("executePreparedStatement", "", "", sth, Len(b[1]), 0)

\* lines 454-480: after the first getPrepStmt, up to the first send
executePrepStmt(t) ==
    /\ pc[t] = "gotPS1"
    /\ LET f == frame[t] IN
       IF IsErr(f.err)
       THEN /\ frame' = [frame EXCEPT ![t] = Executed(f, NoRes, f.err)]
            /\ pc' = [pc EXCEPT ![t] = "executed"]
       ELSE IF ~f.columnar /\ TransposePanics(f.binds)
       THEN /\ frame' = frame
            /\ pc' = [pc EXCEPT ![t] = "panic"]
       ELSE LET b == IF f.columnar THEN f.binds ELSE Transpose(f.binds) IN
            /\ frame' = [frame EXCEPT
                    ![t].binds = b,
                    ![t].req = ExecPrepReq(f.ps, b),
                    ![t].phase = "req"]
            /\ pc' = [pc EXCEPT ![t] = "exec1"]
    /\ UNCHANGED <<prev, conf, conn, cache, mux, wire, nextSth, ret, ncalls, ch, stream, ctxDone>>

\* lines 481-487: the first reply; on a stale handle the cache entry at key sql is deleted
ExecPrepReply(t) ==
    /\ pc[t] = "exec1"
    /\ \E r \in Replies(frame[t].req, 0) :
          /\ Recv(t, r)
          /\ IF IsStaleHandle(SendErr(t, r))
             THEN /\ cache' = CacheDelete(cache, frame[t].sql)
                  /\ frame' = [frame EXCEPT ![t].phase = "none", ![t].res = r,
                                            ![t].err = SendErr(t, r), ![t].site = 2]
                  /\ pc' = [pc EXCEPT ![t] = "getPS"]
             ELSE /\ cache' = cache
                  /\ frame' = [frame EXCEPT ![t].phase = "none", ![t].res = r,
                                            ![t].err = SendErr(t, r)]
                  /\ pc' = [pc EXCEPT ![t] = "fin"]
    /\ UNCHANGED <<prev, conf, conn, ret, ncalls, ch, stream, ctxDone>>

\* lines 488-494: ps, err := c.getPrepStmt declares new variables in the block;
\* the retry is sent with the block's ps and its result assigned to the block's err
RetryPrepStmt(t) ==
    /\ pc[t] = "gotPS2"
    /\ LET f == frame[t] IN
       IF IsErr(f.errIn)
       THEN /\ frame' = [frame EXCEPT ![t] = Executed(f, NoRes, f.errIn)]
            /\ pc' = [pc EXCEPT ![t] = "executed"]
       ELSE /\ frame' = [frame EXCEPT ![t].req = ExecPrepReq(f.psIn, f.binds),
                                      ![t].phase = "req"]
            /\ pc' = [pc EXCEPT ![t] = "exec2"]
    /\ UNCHANGED <<prev, conf, conn, cache, mux, wire, nextSth, ret, ncalls, ch, stream, ctxDone>>

RetryReply(t) ==
    /\ pc[t] = "exec2"
    /\ \E r \in Replies(frame[t].req, 0) :
          /\ Recv(t, r)
          /\ frame' = [frame EXCEPT ![t].phase = "none", ![t].res = r,
                                    ![t].errIn = SendErr(t, r)]
    /\ pc' = [pc EXCEPT ![t] = "fin"]
    /\ UNCHANGED <<prev, conf, conn, cache, ret, ncalls, ch, stream, ctxDone>>

\* FinishPrepStmt with the test of line 496 inverted: the statement is closed when
\* statements are cached
FinishPrepStmt_CloseWhenCached(t) ==
    /\ pc[t] = "fin"
    /\ IF conf.CachePrepStmts
       THEN /\ frame' = [frame EXCEPT
                    ![t].req = Req("closePreparedStatement", "", "", frame[t].ps, 0, 0),
                    ![t].phase = "req"]
            /\ pc' = [pc EXCEPT ![t] = "closePS"]
       ELSE /\ frame' = [frame EXCEPT ![t] = Executed(@, @.res, @.err)]
            /\ pc' = [pc EXCEPT ![t] = "executed"]
    /\ UNCHANGED <<prev, conf, conn, cache, mux, wire, nextSth, ret, ncalls, ch, stream, ctxDone>>

\* lines 496-499: close executePrepStmt's ps when statements are not cached,
\* then return res and executePrepStmt's err
FinishPrepStmt(t) ==
    /\ pc[t] = "fin"
    /\ IF ~conf.CachePrepStmts
       THEN /\ frame' = [frame EXCEPT
                    ![t].req = Req("closePreparedStatement", "", "", frame[t].ps, 0, 0),
                    ![t].phase = "req"]
            /\ pc' = [pc EXCEPT ![t] = "closePS"]
       ELSE /\ frame' = [frame EXCEPT ![t] = Executed(@, @.res, @.err)]
            /\ pc' = [pc EXCEPT ![t] = "executed"]
    /\ UNCHANGED <<prev, conf, conn, cache, mux, wire, nextSth, ret, ncalls, ch, stream, ctxDone>>

\* closePrepStmt's reply: its result is dropped (line 497)
ClosePrepStmtReply(t) ==
    /\ pc[t] = "closePS"
    /\ \E r \in Replies(frame[t].req, 0) : Recv(t, r)
    /\ frame' = [frame EXCEPT ![t] = Executed(@, @.res, @.err)]
    /\ pc' = [pc EXCEPT ![t] = "executed"]
    /\ UNCHANGED <<prev, conf, conn, cache, ret, ncalls, ch, stream, ctxDone>>

(***************************************************************************)
(* The public operations' returns.                                         *)
(***************************************************************************)
\* Execute, lines 274-280
ExecuteReturn(t) ==
    /\ pc[t] = "executed" /\ frame[t].op = "Execute"
    /\ LET f == frame[t] IN
       IF IsErr(f.err) THEN Return(t, 0, f.err, <<>>)
       ELSE IF f.res.nres > 0
       THEN Return(t, IF f.res.rtype = "rowCount" THEN f.res.rows ELSE 0, NoErr, <<>>)
       ELSE Return(t, 0, NoErr, <<>>)
    /\ UNCHANGED <<prev, conf, conn, cache, mux, wire, nextSth, ncalls, ch, stream, ctxDone>>

\* Commit, lines 216-219
CommitReturn(t) ==
    /\ pc[t] = "executed" /\ frame[t].op = "Commit"
    /\ Return(t, 0, frame[t].err, <<>>)
    /\ UNCHANGED <<prev, conf, conn, cache, mux, wire, nextSth, ncalls, ch, stream, ctxDone>>

\* Rollback, lines 207-210
RollbackReturn(t) ==
    /\ pc[t] = "executed" /\ frame[t].op = "Rollback"
    /\ Return(t, 0, frame[t].err, <<>>)
    /\ UNCHANGED <<prev, conf, conn, cache, mux, wire, nextSth, ncalls, ch, stream, ctxDone>>

(***************************************************************************)
(* GetSessionAttr, EnableAutoCommit, DisableAutoCommit (lines 165-202) and *)
(* SetTimeout (lines 342-351): one command each.                           *)
(***************************************************************************)
AttrOps == {"GetSessionAttr", "EnableAutoCommit", "DisableAutoCommit", "SetTimeout"}
AttrCmd(op) == IF op = "GetSessionAttr" THEN "getAttributes" ELSE "setAttributes"

StartAttr(t) ==
    /\ NewCall(t)
    /\ \E op \in AttrOps :
          frame' = [frame EXCEPT
                      ![t] = [Frame0 EXCEPT !.op = op, !.phase = "req",
                                            !.req = Req(AttrCmd(op), "", "", 0, 0, 0)],
                      !["prod"] = IF StreamIdle THEN ProdFrame0 ELSE @]
    /\ pc' = [pc EXCEPT ![t] = "attr"]
    /\ ret' = [ret EXCEPT ![t] = NoRet]
    /\ UNCHANGED <<prev, conf, conn, cache, mux, nextSth, ch, ctxDone>>

AttrReply(t) ==
    /\ pc[t] = "attr"
    /\ \E r \in Replies(frame[t].req, 0) :
          /\ Recv(t, r)
          /\ ret' = [ret EXCEPT ![t] =
                       Ret(frame[t].op, "", "", 0, SendErr(t, r), <<>>)]
    /\ pc' = [pc EXCEPT ![t] = "idle"]
    /\ frame' = [frame EXCEPT ![t] = Frame0]
    /\ UNCHANGED <<prev, conf, conn, cache, ncalls, ch, stream, ctxDone>>

(***************************************************************************)
(* FetchChan and FetchSlice, lines 288-340.                                *)
(***************************************************************************)
\* lines 289-306: the first optional argument of a wrong type, 0 if none
FetchArgError(b, s) ==
    CASE b.k = "other" -> 2
      [] s.k = "other" -> 3
      [] OTHER -> 0

\* FetchChan, lines 288-308 (op is "FetchChan", or "FetchSlice" when called at line 332)
\* (B, S: the values the two optional arguments are drawn from)
StartFetchOf(t, op, B, S) ==
    /\ StreamIdle
    /\ NewCall(t)
    /\ \E sql \in Sqls, b \in B, s \in S :
          IF FetchArgError(b, s) # 0
          THEN ArgError(t, op, sql, FetchArgError(b, s))
          ELSE Begin(t, op, sql, s.v, <<b.v>>, FALSE)
    /\ UNCHANGED <<prev, conf, conn, cache, mux, nextSth, ch, ctxDone>>

StartFetch(t, op) == StartFetchOf(t, op, RowArgs, SchemaArgs)
StartFetchChan(t) == StartFetch(t, "FetchChan")
StartFetchSlice(t) == StartFetch(t, "FetchSlice")

\* FetchChan(sql) without optional arguments
NoBindArg == {Arg("nil", <<>>)}
NoSchemaArg == {Arg("nil", "")}
StartQuery(t) == StartFetchOf(t, "FetchChan", NoBindArg, NoSchemaArg)


\* lines 309-322: the error FetchChan returns for the response, "nil" kind if none
FetchChanError(f) ==
    CASE IsErr(f.err) -> f.err
      [] f.res.nres # 1 -> Err("numResults", 0)
      [] f.res.rtype # "resultSet" -> Err("resultType", 0)
      [] f.res.rsh = -1 -> Err("noResultSet", 0)
      [] OTHER -> NoErr

\* lines 309-327 (and 332-335): check the response, make the channel, start the producer
FetchChanReturn(t) ==
    /\ pc[t] = "executed" /\ frame[t].op \in {"FetchChan", "FetchSlice"}
    /\ LET f == frame[t] IN
       IF IsErr(FetchChanError(f))
       THEN /\ Return(t, 0, FetchChanError(f), <<>>)
            /\ UNCHANGED <<ch, stream, wire>>
       ELSE /\ ch' = <<>>
            /\ wire' = [wire EXCEPT !["prod"] = <<>>]
            /\ stream' = [NoStream EXCEPT !.open = TRUE, !.slice = (f.op = "FetchSlice")]
            /\ ret' = [ret EXCEPT ![t] =
                         IF f.op = "FetchChan"
                         THEN Ret(f.op, f.sql, f.schema, 1, NoErr, <<>>) ELSE @]
            /\ pc' = [pc EXCEPT ![t] = IF f.op = "FetchChan" THEN "idle" ELSE "slice",
                                !["prod"] = "start"]
            /\ frame' = [frame EXCEPT
                    ![t] = IF f.op = "FetchChan" THEN Frame0 ELSE @,
                    !["prod"] = [ProdFrame0 EXCEPT !.rows = f.res.rows, !.rsh = f.res.rsh]]
    /\ UNCHANGED <<prev, conf, conn, cache, mux, nextSth, ncalls, ctxDone>>

\* FetchSlice, lines 336-338: one iteration of the range loop
FetchSliceRecv(t) ==
    /\ pc[t] = "slice"
    /\ ch # <<>>
    /\ frame' = [frame EXCEPT ![t].acc = Append(@, Head(ch).data)]
    /\ ch' = Tail(ch)
    /\ UNCHANGED <<prev, conf, conn, cache, mux, wire, nextSth, pc, ret, ncalls, stream, ctxDone>>

\* FetchSlice, line 339: the channel is closed and drained
FetchSliceReturn(t) ==
    /\ pc[t] = "slice"
    /\ ch = <<>> /\ stream.closed
    /\ Return(t, 0, NoErr, frame[t].acc)
    /\ UNCHANGED <<prev, conf, conn, cache, mux, wire, nextSth, ncalls, ch, stream, ctxDone>>

\* the code that called FetchChan receives from the channel
Consume ==
    /\ stream.open /\ ~stream.slice
    /\ ch # <<>>
    /\ ch' = Tail(ch)
    /\ UNCHANGED <<prev, conf, conn, cache, mux, wire, nextSth, pc, frame, ret, ncalls, stream, ctxDone>>

\* the context given to ConnectContext is cancelled; the code reads it only in
\* transposeToChan, so a cancellation before the producer starts is one at its start
CancelCtx ==
    /\ ~ctxDone
    /\ pc["prod"] # "off"
    /\ ctxDone' = TRUE
    /\ UNCHANGED <<prev, conf, conn, cache, mux, wire, nextSth, pc, frame, ret, ncalls, ch, stream>>

(***************************************************************************)
(* resultsToChan, lines 502-552: the producer goroutine "prod".            *)
(***************************************************************************)
\* Push on a channel without a capacity limit
Push_Unbounded(item) ==
    /\ ch' = Append(ch, item)

\* ch <- item on the channel of line 324: blocks while the buffer is full
Push(item) ==
    /\ Len(ch) < ChanCap
    /\ ch' = Append(ch, item)

\* the deferred close(ch) of lines 503-505, and the goroutine ends
CloseChan(items) ==
    /\ stream' = [stream EXCEPT !.items = items, !.closed = TRUE]
    /\ pc' = [pc EXCEPT !["prod"] = "off"]

\* LoopHead with StartPosition 0 in every fetch instead of i
LoopHead_FromZero(f) ==
    IF f.i < f.rows
    THEN [f EXCEPT !.req = Req("fetch", "", "", f.rsh, 0, conf.FetchReqSize),
                   !.phase = "req"]
    ELSE [f EXCEPT !.req = Req("closeResultSet", "", "", f.rsh, 0, 0), !.phase = "req"]

\* the loop condition of line 510: the next fetch, or closeResultSet (lines 534-538)
LoopHead(f) ==
    IF f.i < f.rows
    THEN [f EXCEPT !.req = Req("fetch", "", "", f.rsh, f.i, conf.FetchReqSize),
                   !.phase = "req"]
    ELSE [f EXCEPT !.req = Req("closeResultSet", "", "", f.rsh, 0, 0), !.phase = "req"]
LoopPc(f) == IF f.i < f.rows THEN "fetch" ELSE "closeRS"

\* lines 507-510 and 542-543: the kind of result set
resultsToChan ==
    /\ pc["prod"] = "start"
    /\ LET f == frame["prod"] IN
       IF f.rows = 0
       THEN /\ CloseChan(stream.items)
            /\ frame' = frame
       ELSE IF f.rsh > 0
       THEN /\ frame' = [frame EXCEPT !["prod"] = LoopHead(f)]
            /\ pc' = [pc EXCEPT !["prod"] = LoopPc(f)]
            /\ stream' = stream
       ELSE /\ frame' = [frame EXCEPT !["prod"] = [f EXCEPT !.lo = 0, !.hi = f.rows]]
            /\ pc' = [pc EXCEPT !["prod"] = "deliver"]
            /\ stream' = stream
    /\ UNCHANGED <<prev, conf, conn, cache, mux, wire, nextSth, ret, ncalls, ch, ctxDone>>

\* FetchReply that sends the fetch again when it fails, instead of lines 519-522
FetchReply_Refetch ==
    /\ pc["prod"] = "fetch"
    /\ LET f == frame["prod"] IN
       \E r \in Replies(f.req, f.rows) :
          /\ (r.kind = "nil" /\ r.rows = 0) => f.stalls < MaxStall
          /\ Recv("prod", r)
          /\ IF r.kind # "nil"
             THEN /\ frame' = [frame EXCEPT !["prod"].phase = "req"]
                  /\ pc' = pc
             ELSE /\ frame' = [frame EXCEPT !["prod"] =
                        [f EXCEPT !.phase = "none",
                                  !.i = f.i + r.rows,
                                  !.lo = f.req.pos, !.hi = f.req.pos + r.rows,
                                  !.paged = TRUE,
                                  !.stalls = IF r.rows = 0 THEN @ + 1 ELSE @]]
                  /\ pc' = [pc EXCEPT !["prod"] = "deliver"]
    /\ UNCHANGED <<prev, conf, conn, cache, ret, ncalls, ch, stream, ctxDone>>

\* lines 518-524: the fetch reply
FetchReply ==
    /\ pc["prod"] = "fetch"
    /\ LET f == frame["prod"] IN
       \E r \in Replies(f.req, f.rows) :
          /\ (r.kind = "nil" /\ r.rows = 0) => f.stalls < MaxStall
          /\ Recv("prod", r)
          /\ IF r.kind # "nil"
             THEN /\ frame' = [frame EXCEPT !["prod"].phase = "none",
                                            !["prod"].err = SendErr("prod", r)]
                  /\ pc' = [pc EXCEPT !["prod"] = "pushErr"]
             ELSE /\ frame' = [frame EXCEPT !["prod"] =
                        [f EXCEPT !.phase = "none",
                                  !.i = f.i + r.rows,
                                  !.lo = f.req.pos, !.hi = f.req.pos + r.rows,
                                  !.paged = TRUE,
                                  !.stalls = IF r.rows = 0 THEN @ + 1 ELSE @]]
                  /\ pc' = [pc EXCEPT !["prod"] = "deliver"]
    /\ UNCHANGED <<prev, conf, conn, cache, ret, ncalls, ch, stream, ctxDone>>

\* transposeToChan: one row is pushed unless the context is cancelled
DeliverRow ==
    /\ pc["prod"] = "deliver"
    /\ frame["prod"].lo < frame["prod"].hi
    /\ ~ctxDone
    /\ Push(RowResult(frame["prod"].lo))
    /\ stream' = [stream EXCEPT !.items = Append(@, RowResult(frame["prod"].lo))]
    /\ frame' = [frame EXCEPT !["prod"].lo = @ + 1]
    /\ UNCHANGED <<prev, conf, conn, cache, mux, wire, nextSth, pc, ret, ncalls, ctxDone>>

\* transposeToChan returns the context's error (lines 525, 544)
DeliverCancelled ==
    /\ pc["prod"] = "deliver"
    /\ frame["prod"].lo < frame["prod"].hi
    /\ ctxDone
    /\ pc' = [pc EXCEPT !["prod"] = "pushErr"]
    /\ frame' = [frame EXCEPT !["prod"].err = Err("ctx", 0)]
    /\ UNCHANGED <<prev, conf, conn, cache, mux, wire, nextSth, ret, ncalls, ch, stream, ctxDone>>

\* transposeToChan returns nil: back to line 510, or the end of the inline branch
DeliverDone ==
    /\ pc["prod"] = "deliver"
    /\ frame["prod"].lo = frame["prod"].hi
    /\ LET f == frame["prod"] IN
       IF f.paged
       THEN /\ frame' = [frame EXCEPT !["prod"] = LoopHead(f)]
            /\ pc' = [pc EXCEPT !["prod"] = LoopPc(f)]
            /\ stream' = stream
       ELSE /\ CloseChan(stream.items)
            /\ frame' = frame
    /\ UNCHANGED <<prev, conf, conn, cache, mux, wire, nextSth, ret, ncalls, ch, ctxDone>>

\* lines 520-521, 526-530, 545-549: ch <- FetchResult{Error: err}; return
PushError ==
    /\ pc["prod"] = "pushErr"
    /\ Push(ErrResult(frame["prod"].err))
    /\ CloseChan(Append(stream.items, ErrResult(frame["prod"].err)))
    /\ UNCHANGED <<prev, conf, conn, cache, mux, wire, nextSth, frame, ret, ncalls, ctxDone>>

\* CloseResultSetReply that reports a failed closeResultSet on the channel
CloseResultSetReply_PushError ==
    /\ pc["prod"] = "closeRS"
    /\ \E r \in Replies(frame["prod"].req, 0) :
          /\ Recv("prod", r)
          /\ IF r.kind = "nil"
             THEN /\ frame' = [frame EXCEPT !["prod"].phase = "none"]
                  /\ CloseChan(stream.items)
             ELSE /\ frame' = [frame EXCEPT !["prod"].phase = "none",
                                            !["prod"].err = SendErr("prod", r)]
                  /\ pc' = [pc EXCEPT !["prod"] = "pushErr"]
                  /\ stream' = stream
    /\ UNCHANGED <<prev, conf, conn, cache, ret, ncalls, ch, ctxDone>>

\* lines 538-541: the reply to closeResultSet; an error is only logged
CloseResultSetReply ==
    /\ pc["prod"] = "closeRS"
    /\ \E r \in Replies(frame["prod"].req, 0) : Recv("prod", r)
    /\ frame' = [frame EXCEPT !["prod"].phase = "none"]
    /\ CloseChan(stream.items)
    /\ UNCHANGED <<prev, conf, conn, cache, ret, ncalls, ch, ctxDone>>

(***************************************************************************)
(* The connection after a successful ConnectContext, and the              *)
(* specification of one caller goroutine using it.                         *)
(***************************************************************************)

InitThreads ==
    /\ pc = [t \in Threads |-> IF t = "prod" THEN "off" ELSE "idle"]
    /\ frame = [t \in Threads |-> IF t = "prod" THEN ProdFrame0 ELSE Frame0]
    /\ ret = [t \in Callers |-> NoRet]
    /\ ncalls = [t \in Threads |-> 0]
    /\ ch = <<>>
    /\ stream = NoStream
    /\ ctxDone = FALSE
    /\ mux = "free"
    /\ wire = [t \in Threads |-> <<>>]
    /\ prev = [t \in Callers |-> NoPrev]
    /\ nextSth = 1
    /\ cache = <<>>

\* the Conn a successful ConnectContext returns
Connected == [st |-> "connected", log |-> TRUE, sid |-> 1]

\* a connection made from a configuration with a logger, a websocket handler, no
\* timeouts, and a fetch size of 1..MaxPage (a page of that many rows)
Init ==
    /\ conf \in [CachePrepStmts : BOOLEAN, FetchReqSize : 1..MaxPage, Timeout : {0},
                 QueryTimeout : {0}, Logger : {TRUE}, WSHandler : {TRUE}]
    /\ conn = Connected
    /\ InitThreads

(***************************************************************************)
(* ConnectContext, lines 110-149, and login, lines 360-419.                *)
(***************************************************************************)
\* line 121: the ceiling of Conf.FetchReqSize
FetchReqSizeMax == 64 * 1024 * 1024
\* the configurations ConnectContext is called with: Logger and WSHandler are
\* TRUE when supplied, FALSE when nil
ConnConfs ==
    [CachePrepStmts : BOOLEAN,
     FetchReqSize : {-1, 0, 1, FetchReqSizeMax, FetchReqSizeMax + 1},
     Timeout : {0, 5}, QueryTimeout : {0, 7},
     Logger : BOOLEAN, WSHandler : BOOLEAN]
\* no Conn yet; st is "new" while ConnectContext builds it, "connected" when it was
\* returned, "failed" when nil was returned; log: c.log is not nil; sid: c.SessionID
NoConn == [st |-> "none", log |-> FALSE, sid |-> 0]

\* lines 110-123: the Conn is built from conf and the fetch size brought into range
ConnectContext(t) ==
    /\ pc[t] = "idle" /\ conn.st = "none"
    /\ conn' = [st |-> "new", log |-> conf.Logger, sid |-> 0]
    /\ conf' = [conf EXCEPT !.FetchReqSize =
                    IF @ <= 0 \/ @ > FetchReqSizeMax THEN FetchReqSizeMax ELSE @]
    /\ frame' = [frame EXCEPT ![t] = [Frame0 EXCEPT !.op = "Connect"]]
    /\ pc' = [pc EXCEPT ![t] = "timeout"]
    /\ UNCHANGED <<prev, cache, mux, wire, nextSth, ret, ncalls, ch, stream, ctxDone>>

\* lines 125-128: the deprecated Timeout is logged through c.log, which is nil when
\* no Logger was given (the call of line 126 panics), and copied to QueryTimeout
ConnectTimeout(t) ==
    /\ pc[t] = "timeout"
    /\ IF conf.Timeout > 0
       THEN IF conn.log
            THEN /\ conf' = [conf EXCEPT !.QueryTimeout = conf.Timeout]
                 /\ pc' = [pc EXCEPT ![t] = "defaults"]
            ELSE /\ conf' = conf
                 /\ pc' = [pc EXCEPT ![t] = "panic"]
       ELSE /\ conf' = conf
            /\ pc' = [pc EXCEPT ![t] = "defaults"]
    /\ UNCHANGED <<prev, conn, cache, mux, wire, nextSth, frame, ret, ncalls, ch, stream, ctxDone>>

\* lines 130-136: the default logger and websocket handler
ConnectDefaults(t) ==
    /\ pc[t] = "defaults"
    /\ conn' = [conn EXCEPT !.log = TRUE]
    /\ pc' = [pc EXCEPT ![t] = "wsConnect"]
    /\ UNCHANGED <<prev, conf, cache, mux, wire, nextSth, frame, ret, ncalls, ch, stream, ctxDone>>

\* lines 138-141 and 360-364: the websocket is opened, or not; then login begins
WsConnect(t) ==
    /\ pc[t] = "wsConnect"
    /\ \E ok \in BOOLEAN :
          IF ok
          THEN /\ frame' = [frame EXCEPT ![t].req = Req("login", "", "", 0, 0, 0),
                                         ![t].phase = "req"]
               /\ pc' = [pc EXCEPT ![t] = "login"]
          ELSE /\ frame' = [frame EXCEPT ![t].err = Err("connect", 0)]
               /\ pc' = [pc EXCEPT ![t] = "connected"]
    /\ UNCHANGED <<prev, conf, conn, cache, mux, wire, nextSth, ret, ncalls, ch, stream, ctxDone>>

\* LoginReply that goes on to the authentication when the login command failed
LoginReply_GoOn(t) ==
    /\ pc[t] = "login"
    /\ \E r \in Replies(frame[t].req, 0) :
          /\ Recv(t, r)
          /\ frame' = [frame EXCEPT ![t].phase = "none", ![t].err = SendErr(t, r)]
          /\ pc' = [pc EXCEPT ![t] = "encrypt"]
    /\ UNCHANGED <<prev, conf, conn, cache, ret, ncalls, ch, stream, ctxDone>>

\* lines 365-368: the reply to login; login returns its error
LoginReply(t) ==
    /\ pc[t] = "login"
    /\ \E r \in Replies(frame[t].req, 0) :
          /\ Recv(t, r)
          /\ frame' = [frame EXCEPT ![t].phase = "none", ![t].err = SendErr(t, r)]
          /\ pc' = [pc EXCEPT ![t] = IF r.kind = "nil" THEN "encrypt" ELSE "connected"]
    /\ UNCHANGED <<prev, conf, conn, cache, ret, ncalls, ch, stream, ctxDone>>

\* lines 370-405: the password is encrypted with the key of the login reply, which
\* fails for a key that cannot hold it (line 383); user.Current's error is dropped at
\* line 388 and its nil result read at line 399 (a panic); else the auth request
EncryptPassword(t) ==
    /\ pc[t] = "encrypt"
    /\ \E outcome \in {"ok", "badKey", "noUser"} :
          CASE outcome = "ok" ->
                 /\ frame' = [frame EXCEPT ![t].req = Req("auth", "", "", 0, 0, 0),
                                           ![t].phase = "req"]
                 /\ pc' = [pc EXCEPT ![t] = "auth"]
            [] outcome = "badKey" ->
                 /\ frame' = [frame EXCEPT ![t].err = Err("encrypt", 0)]
                 /\ pc' = [pc EXCEPT ![t] = "connected"]
            [] outcome = "noUser" ->
                 /\ frame' = frame
                 /\ pc' = [pc EXCEPT ![t] = "panic"]
    /\ UNCHANGED <<prev, conf, conn, cache, mux, wire, nextSth, ret, ncalls, ch, stream, ctxDone>>

\* lines 407-418: the reply to the authentication; SessionID is set on success
AuthReply(t) ==
    /\ pc[t] = "auth"
    /\ \E r \in Replies(frame[t].req, 0) :
          /\ Recv(t, r)
          /\ frame' = [frame EXCEPT ![t].phase = "none", ![t].err = SendErr(t, r)]
          /\ conn' = IF r.kind = "nil" THEN [conn EXCEPT !.sid = Connected.sid] ELSE conn
    /\ pc' = [pc EXCEPT ![t] = "connected"]
    /\ UNCHANGED <<prev, conf, cache, ret, ncalls, ch, stream, ctxDone>>

\* lines 139-148: ConnectContext returns (nil, error) or (c, nil)
ConnectReturn(t) ==
    /\ pc[t] = "connected"
    /\ conn' = [conn EXCEPT !.st = IF IsErr(frame[t].err) THEN "failed" ELSE "connected"]
    /\ Return(t, 0, frame[t].err, <<>>)
    /\ UNCHANGED <<prev, conf, cache, mux, wire, nextSth, ncalls, ch, stream, ctxDone>>

\* ConnectContext is called once, with any configuration
InitConnect ==
    /\ conf \in ConnConfs
    /\ conn = NoConn
    /\ InitThreads

NextConnect ==
    \/ ConnectContext("c1") \/ ConnectTimeout("c1") \/ ConnectDefaults("c1")
    \/ WsConnect("c1") \/ SendReq("c1") \/ LoginReply("c1") \/ EncryptPassword("c1")
    \/ AuthReply("c1") \/ ConnectReturn("c1")

SpecConnect == InitConnect /\ [][NextConnect]_vars

\* the steps of c.execute and executePrepStmt, for any public operation
ExecuteStep(t) ==
    \/ SendReq(t)
    \/ execute(t) \/ ExecuteReply(t)
    \/ getPrepStmt(t) \/ CreateReply(t)
    \/ executePrepStmt(t) \/ ExecPrepReply(t) \/ RetryPrepStmt(t) \/ RetryReply(t)
    \/ FinishPrepStmt(t) \/ ClosePrepStmtReply(t)

ProducerStep ==
    \/ SendReq("prod")
    \/ resultsToChan \/ FetchReply \/ DeliverRow \/ DeliverCancelled \/ DeliverDone
    \/ PushError \/ CloseResultSetReply

\* one goroutine calls Execute, Commit and Rollback, one after another
NextExec ==
    \/ StartExecute("c1") \/ StartCommit("c1") \/ StartRollback("c1")
    \/ ExecuteStep("c1")
    \/ ExecuteReturn("c1") \/ CommitReturn("c1") \/ RollbackReturn("c1")

SpecExec == Init /\ [][NextExec]_vars

\* one goroutine calls FetchChan and FetchSlice; the producer streams the rows
NextStream ==
    \/ StartFetchChan("c1") \/ StartFetchSlice("c1")
    \/ ExecuteStep("c1")
    \/ FetchChanReturn("c1") \/ FetchSliceRecv("c1") \/ FetchSliceReturn("c1")
    \/ ProducerStep
    \/ Consume
    \/ CancelCtx

SpecStream == Init /\ [][NextStream]_vars

\* Two goroutines use the connection at once, without Lock and Unlock, while the
\* producer of the stream that c1's FetchChan opened runs: c1 calls FetchChan and
\* receives from the channel, c2 calls the attribute operations.  No call has
\* binds, so the connection is one that does not cache statements.
NextConc ==
    \/ StartQuery("c1")
    \/ StartAttr("c2")
    \/ \E t \in Callers : SendReq(t) \/ execute(t) \/ ExecuteReply(t)
    \/ AttrReply("c2")
    \/ FetchChanReturn("c1")
    \/ SendReq("prod")
    \/ resultsToChan \/ FetchReply \/ DeliverRow \/ DeliverDone
    \/ PushError \/ CloseResultSetReply
    \/ Consume

InitConc ==
    /\ conf \in [CachePrepStmts : {FALSE}, FetchReqSize : 1..MaxPage, Timeout : {0},
                 QueryTimeout : {0}, Logger : {TRUE}, WSHandler : {TRUE}]
    /\ conn = Connected
    /\ InitThreads

SpecConc == InitConc /\ [][NextConc]_vars

\* One goroutine calls Execute, Commit, Rollback and FetchChan, each after the stream
\* of the last FetchChan has ended, with sql alone or with sql and binds: no binds,
\* an empty matrix, a matrix of one empty row, and a matrix of two rows of one value.
PlainBinds ==
    {Arg("nil", <<>>), Arg("matrix", <<>>), Arg("matrix", <<<<>>>>),
     Arg("matrix", <<<<11>>, <<21>>>>)}
PlainRows == {Arg("nil", <<>>), Arg("row", <<>>), Arg("row", <<11>>)}
StartPlain(t) ==
    /\ StreamIdle
    /\ \/ StartExecuteOf(t, PlainBinds, NoSchemaArg, {Arg("nil", 0)}, {Arg("nil", FALSE)})
       \/ StartCommit(t) \/ StartRollback(t)
       \/ StartFetchOf(t, "FetchChan", PlainRows, NoSchemaArg)

Next ==
    \/ StartPlain("c1")
    \/ ExecuteStep("c1")
    \/ ExecuteReturn("c1") \/ CommitReturn("c1") \/ RollbackReturn("c1")
    \/ FetchChanReturn("c1")
    \/ SendReq("prod")
    \/ resultsToChan \/ FetchReply \/ DeliverRow \/ DeliverDone
    \/ PushError \/ CloseResultSetReply
    \/ Consume

Spec == Init /\ [][Next]_vars

(***************************************************************************)
(* Properties of the prepared-statement path (SpecExec).                   *)
(***************************************************************************)
Min(S) == CHOOSE x \in S : \A y \in S : x <= y
Cmds(w, c) == {i \in 1..Len(w) : w[i].cmd = c}
Creates(w) == Cmds(w, "createPreparedStatement")
Execs(w) == Cmds(w, "executePreparedStatement")
Closes(w) == Cmds(w, "closePreparedStatement")
\* the operation op of goroutine t has returned
Returned(t, op) == pc[t] = "idle" /\ ret[t].op = op

\* the first executePreparedStatement of the Execute that t has returned from was
\* answered "Statement handle not found"
FirstExecStale(t) ==
    /\ Returned(t, "Execute")
    /\ Execs(wire[t]) # {}
    /\ wire[t][Min(Execs(wire[t]))].rep = "stale"
Recreated(t) == {c \in Creates(wire[t]) : c > Min(Execs(wire[t]))}

\* The recreate step of the recovery: after the stale answer exactly one
\* createPreparedStatement is sent. (Line 487 deletes the key sql; the statement is
\* recreated when that is the key the statement was cached under.)
StaleRecreated == \A t \in Callers : FirstExecStale(t) => Cardinality(Recreated(t)) = 1

\* C2: when the first executePreparedStatement of an Execute with binds is answered
\* "Statement handle not found" and the statement is recreated, the execute is sent
\* exactly once more, with the handle the new createPreparedStatement returned, there
\* is no third execute, and if that retry fails its failure is the kind of error
\* Execute returns.
C2_StaleRetry ==
    \A t \in Callers :
        LET w == wire[t] IN
        FirstExecStale(t) =>
            /\ Cardinality(Execs(w)) <= 2
            /\ \A c \in Recreated(t) : w[c].rep = "nil" =>
                  /\ Cardinality(Execs(w)) = 2
                  /\ \A e \in Execs(w) \ {Min(Execs(w))} :
                        /\ e > c
                        /\ w[e].sth = w[c].rsth
                        /\ w[e].rep # "nil" => ret[t].err.kind = w[e].rep

\* C3: with statement caching enabled, when an Execute with binds creates the
\* statement and the next operation is an Execute with binds for the same schema and
\* SQL text, and no execute is answered "Statement handle not found", the two calls
\* send one createPreparedStatement in all, the second call sends just an
\* executePreparedStatement carrying the handle that create returned, and neither
\* call sends a closePreparedStatement.
NoStale(w) == \A i \in 1..Len(w) : w[i].rep # "stale"
TwoExecutes(t) ==
    /\ conf.CachePrepStmts
    /\ prev[t].ret.op = "Execute" /\ Returned(t, "Execute")
    /\ prev[t].ret.sql = ret[t].sql /\ prev[t].ret.schema = ret[t].schema
    /\ prev[t].wire # <<>> /\ wire[t] # <<>>
    /\ prev[t].wire[1].cmd = "createPreparedStatement" /\ prev[t].wire[1].rep = "nil"
    /\ wire[t][1].cmd # "execute"
    /\ NoStale(prev[t].wire) /\ NoStale(wire[t])

C3_CachedReuse ==
    \A t \in Callers :
        TwoExecutes(t) =>
            /\ Cardinality(Creates(prev[t].wire \o wire[t])) = 1
            /\ Closes(prev[t].wire \o wire[t]) = {}
            /\ Len(wire[t]) = 1
            /\ wire[t][1].cmd = "executePreparedStatement"
            /\ wire[t][1].sth = prev[t].wire[1].rsth

C3_Witness ==
    /\ TwoExecutes("c1")
    /\ ret["c1"].schema = "s"
    /\ wire["c1"][1].rep = "nil"

\* C4: with statement caching disabled, every executePreparedStatement of an Execute
\* that has returned is followed by a closePreparedStatement of the handle it carried.
C4_ClosedAfterUse ==
    \A t \in Callers :
        (~conf.CachePrepStmts /\ Returned(t, "Execute")) =>
            \A e \in Execs(wire[t]) :
                \E k \in Closes(wire[t]) : k > e /\ wire[t][k].sth = wire[t][e].sth

\* C9: an Execute whose bind matrix has rows of unequal length writes no request.
C9_RaggedRejected ==
    \A t \in Callers :
        (frame[t].op = "Execute" /\ IsRagged(frame[t].binds)) => wire[t] = <<>>

(***************************************************************************)
(* Properties of the result stream (SpecStream).                           *)
(***************************************************************************)
Fetches(w) == Cmds(w, "fetch")
FailedFetches(w) == {k \in Fetches(w) : w[k].rep \notin {"nil", "pending"}}
ErrorItems(items) == {j \in 1..Len(items) : IsErr(items[j].err)}
RECURSIVE RowsFetched(_, _)
\* the rows the fetch replies before entry k of log w have carried
RowsFetched(w, k) ==
    IF k <= 1 THEN 0
    ELSE RowsFetched(w, k - 1) + (IF w[k - 1].cmd = "fetch" THEN w[k - 1].rows ELSE 0)
\* the stream of a result set with a handle is being produced or has been produced
HandleStream == stream.open /\ frame["prod"].rsh > 0

\* C5: for a result set with a handle and N rows, the rows pushed to the stream are
\* rows 0, 1, 2, ... in order, without gap or repetition; every fetch asks for the
\* start position equal to the rows the earlier fetches returned; and a stream that
\* has closed without an error result holds exactly N rows.
C5_RowsInOrder ==
    HandleStream =>
        /\ \A j \in 1..Len(stream.items) :
              ~IsErr(stream.items[j].err) => stream.items[j] = RowResult(j - 1)
        /\ \A k \in Fetches(wire["prod"]) :
              wire["prod"][k].pos = RowsFetched(wire["prod"], k)
        /\ (stream.closed /\ ErrorItems(stream.items) = {}) =>
              Len(stream.items) = frame["prod"].rows

C5_Witness ==
    /\ HandleStream /\ stream.closed
    /\ ErrorItems(stream.items) = {}
    /\ frame["prod"].rows = MaxRows
    /\ Len(stream.items) = MaxRows
    /\ conf.FetchReqSize < MaxRows
    /\ Cardinality(Fetches(wire["prod"])) >= 2

\* C6: when a fetch fails, it is the last command the producer sends for the result
\* set (no second fetch of the page, no closeResultSet), the producer pushes only the
\* error result and ends, and the closed stream holds exactly one error result, the
\* failed fetch's error, as its last element.
C6_FetchFailure ==
    /\ \A j \in ErrorItems(stream.items) : j = Len(stream.items) /\ stream.closed
    /\ \A k \in FailedFetches(wire["prod"]) :
          /\ k = Len(wire["prod"])
          /\ pc["prod"] \in {"pushErr", "off"}
          /\ pc["prod"] = "off" =>
                /\ stream.closed
                /\ ErrorItems(stream.items) = {Len(stream.items)}
                /\ stream.items[Len(stream.items)] = ErrResult(Err(wire["prod"][k].rep, k))

C6_Witness ==
    /\ HandleStream /\ stream.closed /\ pc["prod"] = "off"
    /\ FailedFetches(wire["prod"]) = {2}
    /\ Len(stream.items) >= 2
    /\ ErrorItems(stream.items) = {Len(stream.items)}

\* C7: a FetchSlice that returns a nil error returns every row of the result set and
\* no entry taken from an error result.
C7_SliceComplete ==
    \A t \in Callers :
        (Returned(t, "FetchSlice") /\ ~IsErr(ret[t].err)) =>
            /\ Len(ret[t].rows) = frame["prod"].rows
            /\ \A j \in 1..Len(ret[t].rows) : ret[t].rows[j] = j - 1

(***************************************************************************)
(* Properties of operations without bind parameters (Spec).                *)
(***************************************************************************)
\* the matrix holds no value: it is absent, or has no rows, or only empty rows
NoBinds(b) == \A y \in 1..Len(b) : Len(b[y]) = 0
Unbound(t) ==
    /\ frame[t].op \in {"Execute", "FetchChan", "FetchSlice", "Commit", "Rollback"}
    /\ NoBinds(frame[t].binds)
DirectOnly(t) ==
    /\ pc[t] \in {"execute", "direct", "executed", "slice"}
    /\ Len(wire[t]) <= 1
    /\ \A i \in 1..Len(wire[t]) : wire[t][i].cmd = "execute"
    /\ pc[t] \in {"executed", "slice"} => Len(wire[t]) = 1
CacheUntouched == \A t \in Callers : Unbound(t) => cache' = cache

\* C8: an Execute, FetchChan, Commit or Rollback without bind parameters sends one
\* direct execute and nothing else, never enters getPrepStmt (the only reader of the
\* statement cache, and the sender of createPreparedStatement), and no step taken
\* while it runs changes the statement cache.
C8_DirectExecute ==
    /\ [](\A t \in Callers : Unbound(t) => DirectOnly(t))
    /\ [][CacheUntouched]_vars

C8_Witness ==
    /\ frame["c1"].op = "FetchChan" /\ NoBinds(frame["c1"].binds)
    /\ pc["c1"] = "executed"
    /\ Len(wire["c1"]) = 1 /\ wire["c1"][1].rep = "nil"
    /\ DOMAIN cache # {}

(***************************************************************************)
(* Properties of the handshake (SpecConnect).                              *)
(***************************************************************************)
Failed(w) == {k \in 1..Len(w) : w[k].rep \notin {"nil", "pending"}}
HandshakeDone(w) ==
    /\ Len(w) = 2
    /\ w[1].cmd = "login" /\ w[1].rep = "nil"
    /\ w[2].cmd = "auth" /\ w[2].rep = "nil"

\* C10: ConnectContext sends login at most once and then auth at most once, auth only
\* after login succeeded; SessionID is set only when both have succeeded; when
\* either fails it is the last command sent, and ConnectContext returns an error
\* and no Conn; a Conn is returned only after one successful login and one
\* successful auth.
C10_Handshake ==
    LET w == wire["c1"] IN
    /\ Len(w) <= 2
    /\ Len(w) >= 1 => w[1].cmd = "login"
    /\ Len(w) = 2 => w[2].cmd = "auth" /\ w[1].rep = "nil"
    /\ conn.sid # 0 => HandshakeDone(w)
    /\ conn.st = "connected" => HandshakeDone(w) /\ conn.sid # 0 /\ ~IsErr(ret["c1"].err)
    /\ \A k \in Failed(w) :
          /\ k = Len(w)
          /\ conn.sid = 0
          /\ Returned("c1", "Connect") => IsErr(ret["c1"].err) /\ conn.st = "failed"

C10_Witness ==
    /\ Returned("c1", "Connect")
    /\ Len(wire["c1"]) = 2 /\ Failed(wire["c1"]) = {2}
    /\ IsErr(ret["c1"].err) /\ conn.st = "failed" /\ conn.sid = 0

(***************************************************************************)
(* Properties of send under concurrent use (SpecConc).                     *)
(***************************************************************************)
\* the commands written to the connection whose reply has not been read
Pending ==
    {e \in Threads \X (1..(3 * MaxRows + 4)) :
        e[2] <= Len(wire[e[1]]) /\ wire[e[1]][e[2]].rep = "pending"}

\* C1: whatever the interleaving of the two callers and the stream's producer, at
\* most one command has been written to the connection without its reply having
\* been read, and the goroutine that wrote it holds the lock.
C1_OneOutstanding ==
    /\ Cardinality(Pending) <= 1
    /\ \A e \in Pending : mux = e[1]
    /\ \A t \in Threads : Len(wire[t]) <= 3 * MaxRows + 4

C1_Witness ==
    /\ mux = "prod" /\ Pending # {}
    /\ wire["prod"] # <<>> /\ wire["prod"][Len(wire["prod"])].pos > 0
    /\ frame["c2"].phase = "req"

(***************************************************************************)
(* Lock and Unlock, lines 355-356, and callers that use them.              *)
(***************************************************************************)
\* Lock: c.mux.Lock() returns once the mutex is free; sync.Mutex is not reentrant
Lock(t) ==
    /\ pc[t] = "idle"
    /\ mux = "free"
    /\ mux' = t
    /\ UNCHANGED <<conf, conn, cache, wire, prev, nextSth, pc, frame, ret, ncalls, ch,
                   stream, ctxDone>>

\* Unlock by the goroutine whose Lock returned
Unlock(t) ==
    /\ pc[t] = "idle"
    /\ mux = t
    /\ mux' = "free"
    /\ UNCHANGED <<conf, conn, cache, wire, prev, nextSth, pc, frame, ret, ncalls, ch,
                   stream, ctxDone>>

\* t holds the mutex through Lock (and not inside send)
HoldsLock(t) == mux = t /\ frame[t].phase # "wait"

\* Two goroutines call Lock, Unlock, Execute (sql alone) and Commit in any order.
NextLock ==
    \E t \in Callers :
        \/ Lock(t) \/ Unlock(t)
        \/ StartExecuteOf(t, NoBindArg, NoSchemaArg, {Arg("nil", 0)}, {Arg("nil", FALSE)})
        \/ StartCommit(t)
        \/ SendReq(t) \/ execute(t) \/ ExecuteReply(t)
        \/ ExecuteReturn(t) \/ CommitReturn(t)

SpecLock == InitConc /\ [][NextLock]_vars

(***************************************************************************)
(* Disconnect, lines 151-163.                                              *)
(***************************************************************************)
\* line 152: the call starts; the range of line 154 will visit every cache entry
StartDisconnect(t) ==
    /\ pc[t] = "idle" /\ conn.st = "connected"
    /\ frame' = [frame EXCEPT ![t] = [Frame0 EXCEPT !.op = "Disconnect",
                                                    !.todo = DOMAIN cache]]
    /\ pc' = [pc EXCEPT ![t] = "disc"]
    /\ ret' = [ret EXCEPT ![t] = NoRet]
    /\ wire' = [wire EXCEPT ![t] = <<>>]
    /\ UNCHANGED <<conf, conn, cache, mux, prev, nextSth, ncalls, ch, stream, ctxDone>>

\* lines 154-157: closePrepStmt for the next entry, in the map's arbitrary order, or,
\* after the last one, the disconnect command
DisconnectLoop(t) ==
    /\ pc[t] = "disc"
    /\ IF frame[t].todo # {}
       THEN \E key \in frame[t].todo :
               /\ frame' = [frame EXCEPT
                      ![t].req = Req("closePreparedStatement", "", "", cache[key], 0, 0),
                      ![t].phase = "req",
                      ![t].todo = @ \ {key}]
               /\ pc' = [pc EXCEPT ![t] = "discClosePS"]
       ELSE /\ frame' = [frame EXCEPT
                      ![t].req = Req("disconnect", "", "", 0, 0, 0),
                      ![t].phase = "req"]
            /\ pc' = [pc EXCEPT ![t] = "discCmd"]
    /\ UNCHANGED <<conf, conn, cache, mux, wire, prev, nextSth, ret, ncalls, ch, stream,
                   ctxDone>>

\* line 155: closePrepStmt's result is dropped
DisconnectCloseReply(t) ==
    /\ pc[t] = "discClosePS"
    /\ \E r \in Replies(frame[t].req, 0) : Recv(t, r)
    /\ frame' = [frame EXCEPT ![t].phase = "none"]
    /\ pc' = [pc EXCEPT ![t] = "disc"]
    /\ UNCHANGED <<conf, conn, cache, prev, ret, ncalls, ch, stream, ctxDone>>

\* DisconnectReply with a return in the error branch of lines 158-160
DisconnectReply_ReturnOnError(t) ==
    /\ pc[t] = "discCmd"
    /\ \E r \in Replies(frame[t].req, 0) :
          /\ Recv(t, r)
          /\ IF r.kind = "nil"
             THEN /\ frame' = [frame EXCEPT ![t].phase = "none"]
                  /\ pc' = [pc EXCEPT ![t] = "discWsClose"]
                  /\ ret' = ret
             ELSE Return(t, 0, NoErr, <<>>)
    /\ UNCHANGED <<conf, conn, cache, prev, ncalls, ch, stream, ctxDone>>

\* lines 157-160: the reply to disconnect; an error is logged and nothing else
DisconnectReply(t) ==
    /\ pc[t] = "discCmd"
    /\ \E r \in Replies(frame[t].req, 0) : Recv(t, r)
    /\ frame' = [frame EXCEPT ![t].phase = "none"]
    /\ pc' = [pc EXCEPT ![t] = "discWsClose"]
    /\ UNCHANGED <<conf, conn, cache, prev, ret, ncalls, ch, stream, ctxDone>>

\* lines 161-162: c.wsh.Close(), c.wsh = nil; Disconnect has no result
DisconnectReturn(t) ==
    /\ pc[t] = "discWsClose"
    /\ conn' = [conn EXCEPT !.st = "closed"]
    /\ Return(t, 0, NoErr, <<>>)
    /\ UNCHANGED <<conf, cache, mux, wire, prev, nextSth, ncalls, ch, stream, ctxDone>>

\* One goroutine calls Execute, with or without binds and schema, and then
\* Disconnect; the connection is not used after Disconnect.
NextDisc ==
    \/ /\ conn.st = "connected"
       /\ StartExecuteOf("c1", {Arg("nil", <<>>), Arg("matrix", <<<<11>>, <<21>>>>)},
                         SchemaArgs \ {Arg("other", "")},
                         {Arg("nil", 0)}, {Arg("nil", FALSE)})
    \/ ExecuteStep("c1")
    \/ ExecuteReturn("c1")
    \/ StartDisconnect("c1") \/ DisconnectLoop("c1") \/ DisconnectCloseReply("c1")
    \/ DisconnectReply("c1") \/ DisconnectReturn("c1")

SpecDisc == Init /\ [][NextDisc]_vars

(***************************************************************************)
(* A stream under fair scheduling.                                         *)
(***************************************************************************)
\* One goroutine calls FetchChan (sql alone) and may or may not receive from the
\* channel; the context may be cancelled while the producer runs.
NextCancel ==
    \/ StartQuery("c1")
    \/ SendReq("c1") \/ execute("c1") \/ ExecuteReply("c1")
    \/ FetchChanReturn("c1")
    \/ ProducerStep
    \/ Consume
    \/ CancelCtx

\* The Go scheduler runs every goroutine that can take a step and the server answers
\* every command: the steps of the library are weakly fair.  The code that receives
\* from the channel and the code that cancels the context are under no obligation.
SpecCancel ==
    /\ Init /\ [][NextCancel]_vars
    /\ WF_vars(ProducerStep)
    /\ WF_vars(SendReq("c1") \/ execute("c1") \/ ExecuteReply("c1") \/ FetchChanReturn("c1"))

(***************************************************************************)
(* Properties of Lock and Unlock (SpecLock).                               *)
(***************************************************************************)
\* C11: while a caller holds the lock it took with Lock, no other goroutine has a
\* command on the connection, and the holder is never waiting in send for the lock
\* it holds itself (a wait nothing can end: only the holder's Unlock frees the lock).
C11_LockedTransaction ==
    \A t \in Callers :
        HoldsLock(t) =>
            /\ \A u \in Threads \ {t} : frame[u].phase # "wait"
            /\ frame[t].phase # "req"

(***************************************************************************)
(* Properties of Disconnect (SpecDisc).                                    *)
(***************************************************************************)
\* C12: the transport is closed only by a Disconnect that has sent its commands, and a
\* Disconnect that has returned has closed it, whatever the reply to disconnect was;
\* its commands are one closePreparedStatement for every handle in the cache, then
\* the disconnect command, the last on the wire.
C12_Disconnect ==
    LET w == wire["c1"] IN
    /\ Returned("c1", "Disconnect") => conn.st = "closed"
    /\ conn.st = "closed" =>
          /\ ret["c1"].op = "Disconnect"
          /\ w # <<>> /\ w[Len(w)].cmd = "disconnect" /\ w[Len(w)].rep # "pending"
          /\ \A i \in 1..(Len(w) - 1) : w[i].cmd = "closePreparedStatement"
          /\ \A key \in DOMAIN cache : \E i \in Closes(w) : w[i].sth = cache[key]
          /\ Cardinality(Closes(w)) = Cardinality(DOMAIN cache)

\* two statements are cached and the disconnect command failed
C12_Witness ==
    /\ Returned("c1", "Disconnect") /\ conn.st = "closed"
    /\ Cardinality(DOMAIN cache) = 2
    /\ conf.CachePrepStmts
    /\ wire["c1"][Len(wire["c1"])].rep = "other"

(***************************************************************************)
(* Properties of a cancelled stream (SpecCancel).                          *)
(***************************************************************************)
\* the rows (not the error results) pushed to the stream so far
RowItems(items) == {k \in 1..Len(items) : items[k].data # -1}

\* C13: once the context is cancelled no further row is pushed, and a producer that
\* is running when the context is cancelled ends and closes the stream, whether or
\* not the consumer receives.
C13_CancelCloses ==
    /\ [][ctxDone => RowItems(stream'.items) \subseteq RowItems(stream.items)]_vars
    /\ (ctxDone /\ pc["prod"] # "off") ~> (pc["prod"] = "off" /\ stream.closed)

(***************************************************************************)
(* Properties of the channel between producer and consumer (SpecStream).   *)
(***************************************************************************)
\* the producer is inside transposeToChan with a row still to push
HoldsRows == pc["prod"] = "deliver" /\ frame["prod"].lo < frame["prod"].hi

\* the producer's last command is a fetch whose reply has not been read
FetchPending ==
    LET w == wire["prod"] IN
    w # <<>> /\ w[Len(w)].cmd = "fetch" /\ w[Len(w)].rep = "pending"

\* C14 as stated: the channel never holds more than ChanCap results, and while it is
\* full no fetch command of the producer is on the wire (only the producer adds to the
\* channel, so a fetch that is pending while the channel is full was sent while it
\* was full).
C14_NoFetchWhileFull ==
    /\ Len(ch) <= ChanCap
    /\ Len(ch) = ChanCap => ~FetchPending

\* C14, amended: the channel never holds more than ChanCap results; while it is full
\* nothing is added to it; and a producer that holds a row to push while the channel
\* is full and the context is not cancelled stays where it is, sending nothing,
\* until the consumer has removed an item.
C14_BoundedQueue ==
    /\ [](Len(ch) <= ChanCap)
    /\ [][Len(ch) = ChanCap => Len(ch') <= Len(ch)]_vars
    /\ [][(Len(ch) = ChanCap /\ HoldsRows /\ ~ctxDone /\ Len(ch') = ChanCap) =>
             /\ wire'["prod"] = wire["prod"]
             /\ pc'["prod"] = pc["prod"]
             /\ frame'["prod"] = frame["prod"]]_vars

\* the channel is full, the producer holds rows of a fetched page and waits
C14_Witness ==
    /\ Len(ch) = ChanCap /\ HoldsRows /\ ~ctxDone
    /\ frame["prod"].paged

(***************************************************************************)
(* Further properties of the prepared-statement path (SpecExec).           *)
(***************************************************************************)
\* the first executePreparedStatement of t's current or last operation failed with an
\* error that is not "Statement handle not found"
FirstExecOtherError(t) ==
    /\ Execs(wire[t]) # {}
    /\ wire[t][Min(Execs(wire[t]))].rep \notin {"nil", "stale", "pending"}

\* C15: when the first executePreparedStatement fails with an error other than
\* "Statement handle not found", it stays the only executePreparedStatement of the
\* operation and no createPreparedStatement follows it; and when the Execute has
\* returned, the statement is still cached under its key with the handle that was
\* executed, and the error returned is the error of that execute.
C15_NoRetryOnOtherError ==
    \A t \in Callers :
        LET w == wire[t]
            e == Min(Execs(w))
        IN  FirstExecOtherError(t) =>
               /\ Execs(w) = {e}
               /\ \A c \in Creates(w) : c < e
               /\ Returned(t, "Execute") =>
                     /\ CacheKey(ret[t].schema, ret[t].sql) \in DOMAIN cache
                     /\ cache[CacheKey(ret[t].schema, ret[t].sql)] = w[e].sth
                     /\ ret[t].err = Err(w[e].rep, e)
                     /\ ret[t].val = 0

\* the failing execute used a statement that was already cached
C15_Witness ==
    /\ Returned("c1", "Execute") /\ FirstExecOtherError("c1")
    /\ Creates(wire["c1"]) = {}
    /\ conf.CachePrepStmts

(***************************************************************************)
(* Properties of closeResultSet (SpecStream).                              *)
(***************************************************************************)
CloseRSs(w) == Cmds(w, "closeResultSet")

\* the fetch replies of the producer have carried all the rows of a result set that
\* has a handle and at least one row
AllFetched ==
    /\ HandleStream /\ frame["prod"].rows > 0
    /\ RowsFetched(wire["prod"], Len(wire["prod"]) + 1) >= frame["prod"].rows

\* the producer gave up on a cancelled context
Abandoned == \E j \in ErrorItems(stream.items) : stream.items[j].err.kind = "ctx"

\* at most one closeResultSet, after every fetch, and only once all rows of a result
\* set with a handle are fetched
CloseRSPlace ==
    LET w == wire["prod"] IN
    /\ Cardinality(CloseRSs(w)) <= 1
    /\ \A k \in CloseRSs(w) : AllFetched /\ k = Len(w) /\ \A j \in Fetches(w) : j < k

\* C16 as stated: a closed stream of a result set with a handle whose rows have all
\* been fetched has sent exactly one closeResultSet, after the last fetch, and holds
\* no error result, whatever the reply to the close; no closeResultSet is sent for
\* other result sets.
C16_CloseWhenFetched ==
    /\ CloseRSPlace
    /\ (stream.closed /\ AllFetched) =>
          /\ Cardinality(CloseRSs(wire["prod"])) = 1
          /\ ErrorItems(stream.items) = {}
          /\ Len(stream.items) = frame["prod"].rows

\* C16, amended: the same for the streams whose delivery was not abandoned on a
\* cancelled context.
C16_CloseResultSet ==
    /\ CloseRSPlace
    /\ (stream.closed /\ AllFetched /\ ~Abandoned) =>
          /\ Cardinality(CloseRSs(wire["prod"])) = 1
          /\ ErrorItems(stream.items) = {}
          /\ Len(stream.items) = frame["prod"].rows

\* all rows were fetched in two or more pages and the closeResultSet failed
C16_Witness ==
    /\ stream.closed /\ AllFetched /\ ~Abandoned
    /\ frame["prod"].rows = MaxRows
    /\ Cardinality(Fetches(wire["prod"])) >= 2
    /\ wire["prod"][Len(wire["prod"])].cmd = "closeResultSet"
    /\ wire["prod"][Len(wire["prod"])].rep = "other"

(***************************************************************************)
(* Properties of the fetch loop's progress (SpecStream).                   *)
(***************************************************************************)
\* C17: whatever row counts the successful fetch replies report, the fetch commands
\* of a stream ask for strictly increasing start positions below the declared row
\* count N, so that at most N of them are sent before the loop ends; and no stream
\* is produced for a result without rows.
C17_FetchesAdvance ==
    LET w == wire["prod"] IN
    /\ \A j, k \in Fetches(w) : j < k => w[j].pos < w[k].pos
    /\ \A k \in Fetches(w) : w[k].pos < frame["prod"].rows
    /\ Cardinality(Fetches(w)) <= frame["prod"].rows

(***************************************************************************)
(* Properties of the stale-handle recovery's result and of the handles     *)
(* left open (SpecExec).                                                   *)
(***************************************************************************)
\* the executePreparedStatement commands of t's operation after the first one
Retries(t) == Execs(wire[t]) \ {Min(Execs(wire[t]))}

\* C18: when the first executePreparedStatement of an Execute was answered "Statement
\* handle not found", the statement was recreated and the retry with the new handle
\* succeeded, Execute returns a nil error and the row count of the retry's reply
\* (0 when the reply holds no row count).
C18_RetrySuccess ==
    \A t \in Callers :
        FirstExecStale(t) =>
            \A c \in Recreated(t), e \in Retries(t) :
                (wire[t][c].rep = "nil" /\ wire[t][e].sth = wire[t][c].rsth
                    /\ wire[t][e].rep = "nil") =>
                    /\ ~IsErr(ret[t].err)
                    /\ ret[t].val \in {0, wire[t][e].rows}

\* the handles the server returned to createPreparedStatement during t's operation
Created(w) == {w[c].rsth : c \in {i \in Creates(w) : w[i].rep = "nil"}}
\* the handles for which a closePreparedStatement was sent
Closed(w) == {w[k].sth : k \in Closes(w)}

\* C19: with statement caching disabled, when an Execute has returned, a
\* closePreparedStatement has been sent for every handle a createPreparedStatement
\* of that Execute returned.
C19_CreatedAreClosed ==
    \A t \in Callers :
        (~conf.CachePrepStmts /\ Returned(t, "Execute")) =>
            Created(wire[t]) \subseteq Closed(wire[t])

(***************************************************************************)
(* Properties of the logger during ConnectContext (SpecConnect).           *)
(***************************************************************************)
\* C20: ConnectContext never fails on an absent logger: a goroutine that has
\* stopped in a run-time panic has done so with a logger in place, and the steps
\* from the transport connect on are taken with a logger in place.
C20_LoggerInPlace ==
    \A t \in Callers :
        /\ pc[t] = "panic" => conn.log
        /\ (frame[t].op = "Connect" /\ pc[t] \notin {"idle", "timeout", "defaults", "panic"})
              => conn.log

====
